---------------------------- MODULE Spec2Model ----------------------------
(***************************************************************************)
(* A model of the logosaurus Logger (src/src/lib.rs): the flag-driven      *)
(* header formatter, the level gate, the write path with its two mutexes   *)
(* (Logger.mu and the Mutex around the destination), and init, the global  *)
(* registration with the log facade.                                       *)
(*                                                                         *)
(* Text is a sequence of one-character strings, so that formatting,        *)
(* padding and ends_with are computed character by character.              *)
(***************************************************************************)
EXTENDS Integers, Sequences, FiniteSets, TLC

(***************************************************************************)
(* Formatting flags (pub type Flag = u8).                                  *)
(***************************************************************************)
L_NONE == 0
L_DATE == 1
L_TIME == 2
L_MICROSECONDS == 4
L_LONG_FILE == 8
L_SHORT_FILE == 16
L_UTC == 32
L_MSG_PREFIX == 64
L_LEVEL == 128
L_STD == L_DATE + L_TIME + L_LEVEL

\* The values of a Flag: a u8.
Flags == 0..255

RECURSIVE BitAnd(_, _)
\* a & b on naturals.
BitAnd(a, b) ==
    IF a = 0 \/ b = 0 THEN 0
    ELSE (a % 2) * (b % 2) + 2 * BitAnd(a \div 2, b \div 2)

\* a | b on naturals.
BitOr(a, b) == a + b - BitAnd(a, b)

(***************************************************************************)
(* log::Level and log::LevelFilter, by their discriminants.                *)
(***************************************************************************)
LevelError == 1
LevelWarn == 2
LevelInfo == 3
LevelDebug == 4
LevelTrace == 5
FilterOff == 0

Levels == LevelError..LevelTrace
LevelFilters == FilterOff..LevelTrace

\* <log::Level as Display>: the level's name in capitals.
LevelName(l) ==
    CASE l = LevelError -> <<"E", "R", "R", "O", "R">>
      [] l = LevelWarn  -> <<"W", "A", "R", "N">>
      [] l = LevelInfo  -> <<"I", "N", "F", "O">>
      [] l = LevelDebug -> <<"D", "E", "B", "U", "G">>
      [] l = LevelTrace -> <<"T", "R", "A", "C", "E">>

(***************************************************************************)
(* Text helpers: what format! does with {}, {: <5}, {:0<6} and what        *)
(* chrono's %Y, %m, %d, %H, %M, %S do.                                     *)
(***************************************************************************)
NL == "\n"

Digit(d) == <<"0", "1", "2", "3", "4", "5", "6", "7", "8", "9">>[d + 1]

RECURSIVE Decimal(_)
\* {} of an unsigned integer: its decimal digits, no padding.
Decimal(n) == IF n < 10 THEN <<Digit(n)>> ELSE Decimal(n \div 10) \o <<Digit(n % 10)>>

RECURSIVE Fill(_, _)
\* n copies of the character c.
Fill(c, n) == IF n <= 0 THEN <<>> ELSE <<c>> \o Fill(c, n - 1)

\* {:c<w}: left-aligned in a field of width w, the fill character c on the right.
PadRight(s, c, w) == s \o Fill(c, w - Len(s))

\* {:c>w} and chrono's zero-padded fields: right-aligned, the fill on the left.
PadLeft(s, c, w) == Fill(c, w - Len(s)) \o s

\* s.ends_with(suffix) for a one-character suffix.
EndsWith(s, c) == Len(s) > 0 /\ s[Len(s)] = c


(***************************************************************************)
(* Option<T>: None, or Some(v).                                            *)
(***************************************************************************)
NoneText == [some |-> FALSE, v |-> <<>>]
NoneNum == [some |-> FALSE, v |-> 0]
Some(x) == [some |-> TRUE, v |-> x]

(***************************************************************************)
(* std::path::Path::new(file).file_name() on a Unix path: the last         *)
(* component when it is a normal one.  Repeated and trailing separators    *)
(* and every "." but a leading one are no components.                      *)
(***************************************************************************)
RECURSIVE Split(_, _)
\* s cut at every occurrence of the character c.
Split(s, c) ==
    IF s = <<>> THEN << <<>> >>
    ELSE LET r == Split(Tail(s), c)
         IN IF Head(s) = c THEN << <<>> >> \o r
            ELSE << <<Head(s)>> \o r[1] >> \o Tail(r)

RECURSIVE Components(_, _)
\* The components of a path among parts[i..], parts being the path cut at "/".
Components(parts, i) ==
    IF i > Len(parts) THEN <<>>
    ELSE IF parts[i] = <<>> \/ (parts[i] = <<".">> /\ i > 1)
         THEN Components(parts, i + 1)
         ELSE <<parts[i]>> \o Components(parts, i + 1)

FileName(file) ==
    LET comps == Components(Split(file, "/"), 1)
        last == comps[Len(comps)]
    IN IF Len(comps) = 0 THEN NoneText
       ELSE IF last = <<".">> \/ last = <<".", ".">> THEN NoneText
       ELSE Some(last)

(***************************************************************************)
(* chrono::DateTime<Local>: the local calendar fields, the nanosecond of   *)
(* the second and the offset of the zone from UTC in seconds.              *)
(***************************************************************************)
\* now.with_timezone(&chrono::Utc): the same instant, read in UTC.  The day
\* moves by at most one; the model's instants stay inside their month.
WithTimezoneUtc(now) ==
    LET t == now.h * 3600 + now.mi * 60 + now.s - now.off
        dd == IF t < 0 THEN -1 ELSE IF t >= 86400 THEN 1 ELSE 0
        u == t - dd * 86400
    IN [now EXCEPT !.d = @ + dd, !.h = u \div 3600, !.mi = (u % 3600) \div 60,
                   !.s = u % 60, !.off = 0]

\* now.format("%Y/%m/%d")
FormatDate(now) ==
    PadLeft(Decimal(now.y), "0", 4) \o <<"/">> \o PadLeft(Decimal(now.mo), "0", 2)
        \o <<"/">> \o PadLeft(Decimal(now.d), "0", 2)

\* now.format("%H:%M:%S")
FormatTime(now) ==
    PadLeft(Decimal(now.h), "0", 2) \o <<":">> \o PadLeft(Decimal(now.mi), "0", 2)
        \o <<":">> \o PadLeft(Decimal(now.s), "0", 2)

\* format!(".{:0<wid$}", micro, wid = 6): fill '0', alignment '<'.
FormatMicro(micro) == <<".">> \o PadRight(Decimal(micro), "0", 6)

\* Logger::format_datetime: buf with the date and the time of now appended.
format_datetime(buf, flag, now) ==
    LET b1 == IF BitAnd(flag, L_DATE) # 0
              THEN buf \o FormatDate(now) \o <<" ">>
              ELSE buf
    IN IF BitAnd(flag, BitOr(L_TIME, L_MICROSECONDS)) # 0
       THEN b1 \o FormatTime(now)
               \o (IF BitAnd(flag, L_MICROSECONDS) # 0
                   THEN FormatMicro(now.nano \div 1000)
                   ELSE <<>>)
               \o <<" ">>
       ELSE b1

\* The prefix segment of the header: at the front unless L_MSG_PREFIX is set.
HeaderPrefixFront(flag, prefix) ==
    IF BitAnd(flag, L_MSG_PREFIX) = 0 THEN prefix ELSE <<>>

\* The file segment of the header, file and line being what write_output passes.
HeaderFile(flag, target, file, line) ==
    IF BitAnd(flag, BitOr(L_LONG_FILE, L_SHORT_FILE)) # 0
    THEN (IF BitAnd(flag, L_LONG_FILE) # 0 THEN target \o <<" ">> ELSE <<>>)
         \o (IF BitAnd(flag, L_SHORT_FILE) # 0
             THEN (IF FileName(file).some THEN FileName(file).v ELSE <<"?", "?", "?">>)
             ELSE file)
         \o <<":">> \o Decimal(line) \o <<":", " ">>
    ELSE <<>>

\* Logger::header, flag and prefix being what self.flags() and self.prefix() return.
header(flag, prefix, target, file, line, level, now) ==
    LET b1 == HeaderPrefixFront(flag, prefix)
        b2 == IF BitAnd(flag, L_LEVEL) # 0
              THEN b1 \o PadRight(LevelName(level), " ", 5) \o <<" ">>
              ELSE b1
        b3 == IF BitAnd(flag, BitOr(BitOr(L_DATE, L_TIME), L_MICROSECONDS)) # 0
              THEN IF BitAnd(flag, L_UTC) # 0
                   THEN format_datetime(b2, flag, WithTimezoneUtc(now))
                   ELSE format_datetime(b2, flag, now)
              ELSE b2
        b4 == b3 \o HeaderFile(flag, target, file, line)
    IN IF BitAnd(flag, L_MSG_PREFIX) # 0 THEN b4 \o prefix ELSE b4

\* enabled with the comparison made strict.
enabledStrict(incoming_level, level) == incoming_level < level

\* Logger::enabled: incoming_level <= self.level(), a Level against a
\* LevelFilter, compared by discriminant.
enabled(incoming_level, level) == incoming_level <= level

\* FileOrPlaceholder with the empty text for an absent file.
FileOrEmpty(file) == IF file.some THEN file.v ELSE <<>>

\* The file write_output passes to header: the record's, or the placeholder.
FileOrPlaceholder(file) == IF file.some THEN file.v ELSE <<"?", "?", "?">>

\* The line write_output passes to header: the record's, or 0.
LineOrZero(line) == IF line.some THEN line.v ELSE 0

\* maybe_newline without the test of the message's end.
maybe_newlineAlways(s) == <<NL>>

\* maybe_newline of write_output.
maybe_newline(s) == IF EndsWith(s, NL) THEN <<>> ELSE <<NL>>

\* The three texts write_output hands to write!, in order: h, s, maybe_newline.
Pieces(flag, prefix, lvl, target, file, line, s, now) ==
    << header(flag, prefix, target, FileOrPlaceholder(file), LineOrZero(line), lvl, now),
       s, maybe_newline(s) >>

(***************************************************************************)
(* The state.                                                              *)
(***************************************************************************)
VARIABLES
    level,      \* Logger.level: the LevelFilter of the gate
    flag,       \* Logger.flag
    prefix,     \* Logger.prefix
    out,        \* Logger.out: the destination the Arc points to
    mu,         \* Logger.mu: the thread that holds it, or NoThread
    outMu,      \* per destination, the thread that holds its Mutex, or NoThread
    dest,       \* per destination, the bytes written to it so far
    pc,         \* per thread, its position in write_output or flush
    loc,        \* per thread, the locals of the call it is in
    clock,      \* the instant chrono::offset::Local::now() would return
    nfail,      \* how many calls of the destination have failed so far
    nset,       \* how many setter calls the owner has made
    emits,      \* history: the calls of write_output that passed the gate
    maxLevel,   \* the facade's process-wide maximum level (log::max_level())
    installed,  \* the facade's process-wide logger, once set
    inits,      \* history: the result of each call of init, in order
    script,     \* sequential caller: the calls of write_output it will make
    ip,         \* sequential caller: the index of its next call
    last        \* sequential caller: what its last call of write_output did

vars == <<level, flag, prefix, out, mu, outMu, dest, pc, loc, clock, nfail, nset,
          emits, maxLevel, installed, inits, script, ip, last>>

(***************************************************************************)
(* Bounds of the model.                                                    *)
(***************************************************************************)
\* The threads that share the Logger.
NumThreads == 2
\* The calls (write_output or flush) each thread makes.
MaxOps == 2
\* The ticks of the clock.
MaxClock == 1
\* The destination calls that fail.
MaxFails == 1
\* The setter calls the owner of the Logger makes.
MaxSets == 1
\* The length of the scripts drawn from SeqCalls.
MaxCalls == 2
\* The calls of init.
MaxInits == 2
\* The records logged through the facade.
MaxLogs == 2

Threads == 1..NumThreads
NoThread == 0
\* The destinations: the builder's and one for every call of set_out.
Dests == 1..(MaxSets + 1)

(***************************************************************************)
(* Inputs.                                                                 *)
(***************************************************************************)
\* 2009/01/23 17:05:23.023123, the instant of the documentation of L_MICROSECONDS.
DocInstant ==
    [y |-> 2009, mo |-> 1, d |-> 23, h |-> 17, mi |-> 5, s |-> 23,
     nano |-> 23123000, off |-> 0]

Instants ==
    { DocInstant,
      [y |-> 2020, mo |-> 10, d |-> 2, h |-> 21, mi |-> 27, s |-> 3,
       nano |-> 123123999, off |-> -18000],
      [y |-> 2021, mo |-> 6, d |-> 15, h |-> 0, mi |-> 0, s |-> 0,
       nano |-> 0, off |-> 3600],
      [y |-> 2021, mo |-> 6, d |-> 15, h |-> 23, mi |-> 59, s |-> 59,
       nano |-> 999999999, off |-> 0],
      [y |-> 2021, mo |-> 6, d |-> 15, h |-> 9, mi |-> 8, s |-> 7,
       nano |-> 5000, off |-> 0] }

TextFoo == <<"f", "o", "o">>
TextMainRs == <<"m", "a", "i", "n", ".", "r", "s">>
TextSrcMainRs == <<"s", "r", "c", "/", "m", "a", "i", "n", ".", "r", "s">>
TextHello == <<"h", "i">>

\* The calls of write_output the formatter is applied to.
HCalls ==
    [lvl : {LevelError, LevelWarn, LevelDebug},
     target : {TextFoo},
     file : {NoneText, Some(TextSrcMainRs), Some(TextMainRs), Some(<<".", ".">>)},
     line : {NoneNum, Some(12)},
     s : {TextHello, TextHello \o <<NL>>},
     now : Instants]

HPrefixes == {<<>>, <<"f", "o", "o", ":", " ">>}

\* A call as the macros of the log facade make it in tests/level.rs.
LevelCall(lvl, s) ==
    [lvl |-> lvl, target |-> <<"l", "e", "v", "e", "l">>,
     file |-> Some(<<"t", "e", "s", "t", "s", "/", "l", "e", "v", "e", "l", ".", "r", "s">>), line |-> Some(19),
     s |-> s, now |-> DocInstant]

\* tests/level.rs: trace!, debug!, info!, warn!, error!.
LevelTestScript ==
    << LevelCall(LevelTrace, <<"s", "u", "p", "p", "r", "e", "s", "s", "e", "d", " ", "t", "r", "a", "c", "e", " ", "m", "e", "s", "s", "a", "g", "e">>),
       LevelCall(LevelDebug, <<"s", "u", "p", "p", "r", "e", "s", "s", "e", "d", " ", "d", "e", "b", "u", "g", " ", "m", "e", "s", "s", "a", "g", "e">>),
       LevelCall(LevelInfo, <<"s", "u", "p", "p", "r", "e", "s", "s", "e", "d", " ", "i", "n", "f", "o", " ", "m", "e", "s", "s", "a", "g", "e">>),
       LevelCall(LevelWarn, <<"w", "a", "r", "n", " ", "m", "e", "s", "s", "a", "g", "e">>),
       LevelCall(LevelError, <<"e", "r", "r", "o", "r", " ", "m", "e", "s", "s", "a", "g", "e">>) >>

\* tests/newline.rs: warn! three times.
NewlineTestScript ==
    << LevelCall(LevelWarn, <<"m", "e", "s", "s", "a", "g", "e", "0">>),
       LevelCall(LevelWarn, <<"m", "e", "s", "s", "a", "g", "e", "1", "\n", "\n">>),
       LevelCall(LevelWarn, <<"m", "e", "s", "s", "a", "g", "e", "2", "\n">>) >>

\* The calls the scripts are drawn from: those of the two tests.
SeqCalls ==
    {LevelTestScript[i] : i \in 1..Len(LevelTestScript)}
        \cup {NewlineTestScript[i] : i \in 1..Len(NewlineTestScript)}

Scripts ==
    {LevelTestScript, NewlineTestScript}
        \cup UNION {[1..n -> SeqCalls] : n \in 1..MaxCalls}

(***************************************************************************)
(* Initial values shared by the specifications.                            *)
(***************************************************************************)
NoLast == [gated |-> FALSE, h |-> <<>>, s |-> <<>>, nl |-> <<>>]
NoLogger == [some |-> FALSE, v |-> [id |-> 0, level |-> FilterOff]]
NoLocals == [op |-> "none", k |-> 0, lvl |-> LevelError, now |-> 0, fl |-> 0,
             pf |-> <<>>, o |-> 0, pieces |-> <<>>, i |-> 0]

\* Nothing locked, nothing written, no thread in a call, the facade untouched:
\* log's MAX_LOG_LEVEL_FILTER starts at Off and its logger unset.
InitRest ==
    /\ out = 1
    /\ mu = NoThread
    /\ outMu = [d \in Dests |-> NoThread]
    /\ dest = [d \in Dests |-> <<>>]
    /\ pc = [t \in Threads |-> "idle"]
    /\ loc = [t \in Threads |-> NoLocals]
    /\ clock = 0
    /\ nfail = 0
    /\ nset = 0
    /\ emits = {}
    /\ maxLevel = FilterOff
    /\ installed = NoLogger
    /\ inits = <<>>
    /\ ip = 1
    /\ last = NoLast

(***************************************************************************)
(* The sequential caller: one thread that calls write_output, each call    *)
(* running to its end before the next.                                     *)
(***************************************************************************)
\* What one call c of write_output on a Logger (level, flag, prefix) hands to
\* the destination: nothing when the gate is closed.
write_output(lv, fl, pf, c) ==
    IF ~enabled(c.lvl, lv) THEN NoLast
    ELSE LET p == Pieces(fl, pf, c.lvl, c.target, c.file, c.line, c.s, c.now)
         IN [gated |-> TRUE, h |-> p[1], s |-> p[2], nl |-> p[3]]

\* The bytes of a call of write_output.
Bytes(w) == w.h \o w.s \o w.nl

\* The next call of the script, from its first statement to its return.
WriteOutputSeq ==
    /\ ip <= Len(script)
    /\ LET w == write_output(level, flag, prefix, script[ip])
       IN /\ last' = w
          /\ dest' = IF w.gated THEN [dest EXCEPT ![out] = @ \o Bytes(w)] ELSE dest
    /\ ip' = ip + 1
    /\ UNCHANGED <<level, flag, prefix, out, mu, outMu, pc, loc, clock, nfail, nset,
                   emits, maxLevel, installed, inits, script>>

\* A Logger of any flags and prefix, applied to one call.
InitH ==
    /\ level = LevelTrace
    /\ flag \in Flags
    /\ prefix \in HPrefixes
    /\ script \in {<<c>> : c \in HCalls}
    /\ InitRest

\* A Logger of any level, as the tests build it, and a script of calls.
InitSeq ==
    /\ level \in LevelFilters
    /\ flag \in {L_NONE, L_LEVEL}
    /\ prefix = <<>>
    /\ script \in Scripts
    /\ InitRest

SeqSpec == (InitSeq \/ InitH) /\ [][WriteOutputSeq]_vars

(***************************************************************************)
(* Threads that share the Logger.  Each call is cut at the points where    *)
(* another thread can come in: before every Mutex::lock and between the    *)
(* writes of write!.  The setters take &mut self: the owner of the Logger  *)
(* can call one only while no thread is inside a &self method.             *)
(***************************************************************************)
\* The message of the k-th call of thread t: distinct for every call.
Msg(t, k) == <<"m", Digit(t), Digit(k)>>

\* The level the threads log at: passed by the initial threshold, Trace, and
\* stopped by the one set_level sets, Warn.
EmitLevels == {LevelDebug}

\* What Local::now() returns at tick c of the clock.
InstantAt(c) == [DocInstant EXCEPT !.s = @ + c]

\* The first text at or after index i of pieces that is not empty: write_fmt
\* hands each text to write_all, which calls the destination only for a text
\* that has bytes.
RECURSIVE NextPiece(_, _)
NextPiece(pieces, i) ==
    IF i > Len(pieces) THEN i
    ELSE IF pieces[i] # <<>> THEN i ELSE NextPiece(pieces, i + 1)

\* CanLock without the exclusion: lock succeeds whoever holds the mutex.
CanLockAlways(holder) == TRUE

\* Mutex::lock succeeds when nobody holds the mutex.
CanLock(holder) == holder = NoThread

\* MuAfterAccessor with the guard kept by the caller.
MuKept(t) == t

\* The holder of Logger.mu once an accessor of thread t has returned: its
\* _lock is dropped.
MuAfterAccessor(t) == NoThread

\* HeaderInstant with the clock read when the header is built.
HeaderInstantLate(t) == InstantAt(clock)

\* The instant the header of thread t's call is built from: the local now.
HeaderInstant(t) == InstantAt(loc[t].now)

\* AfterDestError with the result unwrapped: the thread panics.
AfterDestErrorPanics == "panicked"

\* What becomes of a thread whose destination call returned Err: the result is
\* dropped (let _ = ...) and the call goes on to its end.
AfterDestError == "dest_unlock"

\* The locals of a thread between two calls.
Returned(t) == [NoLocals EXCEPT !.k = loc[t].k]

\* A thread enters write_output with a level, or flush.
Call(t, op, lvl) ==
    /\ pc[t] = "idle"
    /\ loc[t].k < MaxOps
    /\ loc' = [loc EXCEPT ![t] = [NoLocals EXCEPT !.op = op, !.k = loc[t].k + 1,
                                                  !.lvl = lvl]]
    /\ pc' = [pc EXCEPT ![t] = IF op = "emit" THEN "level_lock" ELSE "out_lock"]
    /\ UNCHANGED <<level, flag, prefix, out, mu, outMu, dest, clock, nfail, nset,
                   emits, maxLevel, installed, inits, script, ip, last>>

\* self.mu.lock() of the accessors level, flags, prefix and out.
LockMu(t) ==
    /\ pc[t] \in {"level_lock", "flags_lock", "prefix_lock", "out_lock"}
    /\ CanLock(mu)
    /\ mu' = t
    /\ pc' = [pc EXCEPT ![t] = CASE pc[t] = "level_lock" -> "level_read"
                                 [] pc[t] = "flags_lock" -> "flags_read"
                                 [] pc[t] = "prefix_lock" -> "prefix_read"
                                 [] pc[t] = "out_lock" -> "out_read"]
    /\ UNCHANGED <<level, flag, prefix, out, outMu, dest, loc, clock, nfail, nset,
                   emits, maxLevel, installed, inits, script, ip, last>>

\* enabled: self.level() returns and is compared; write_output returns at once
\* when the gate is closed.
ReadLevel(t) ==
    /\ pc[t] = "level_read"
    /\ mu' = MuAfterAccessor(t)
    /\ IF enabled(loc[t].lvl, level)
       THEN /\ pc' = [pc EXCEPT ![t] = "now"]
            /\ loc' = loc
       ELSE /\ pc' = [pc EXCEPT ![t] = "idle"]
            /\ loc' = [loc EXCEPT ![t] = Returned(t)]
    /\ UNCHANGED <<level, flag, prefix, out, outMu, dest, clock, nfail, nset,
                   emits, maxLevel, installed, inits, script, ip, last>>

\* let now = chrono::offset::Local::now();
CaptureNow(t) ==
    /\ pc[t] = "now"
    /\ loc' = [loc EXCEPT ![t].now = clock]
    /\ pc' = [pc EXCEPT ![t] = "flags_lock"]
    /\ UNCHANGED <<level, flag, prefix, out, mu, outMu, dest, clock, nfail, nset,
                   emits, maxLevel, installed, inits, script, ip, last>>

\* header: self.flags() returns.
ReadFlags(t) ==
    /\ pc[t] = "flags_read"
    /\ mu' = MuAfterAccessor(t)
    /\ loc' = [loc EXCEPT ![t].fl = flag]
    /\ pc' = [pc EXCEPT ![t] = "prefix_lock"]
    /\ UNCHANGED <<level, flag, prefix, out, outMu, dest, clock, nfail, nset,
                   emits, maxLevel, installed, inits, script, ip, last>>

\* header: self.prefix() returns, and the rest of header and maybe_newline are
\* computed from the locals.
ReadPrefix(t) ==
    /\ pc[t] = "prefix_read"
    /\ mu' = MuAfterAccessor(t)
    /\ LET p == Pieces(loc[t].fl, prefix, loc[t].lvl, TextFoo, NoneText, NoneNum,
                       Msg(t, loc[t].k), HeaderInstant(t))
       IN /\ loc' = [loc EXCEPT ![t].pf = prefix, ![t].pieces = p]
          /\ emits' = emits \cup {[t |-> t, k |-> loc[t].k, now |-> loc[t].now,
                                   line |-> p[1] \o p[2] \o p[3]]}
    /\ pc' = [pc EXCEPT ![t] = "out_lock"]
    /\ UNCHANGED <<level, flag, prefix, out, outMu, dest, clock, nfail, nset,
                   maxLevel, installed, inits, script, ip, last>>

\* self.out() returns a clone of the Arc.
ReadOut(t) ==
    /\ pc[t] = "out_read"
    /\ mu' = MuAfterAccessor(t)
    /\ loc' = [loc EXCEPT ![t].o = out]
    /\ pc' = [pc EXCEPT ![t] = "dest_lock"]
    /\ UNCHANGED <<level, flag, prefix, out, outMu, dest, clock, nfail, nset,
                   emits, maxLevel, installed, inits, script, ip, last>>

\* out.lock().unwrap(): the Mutex of the destination.
LockDest(t) ==
    /\ pc[t] = "dest_lock"
    /\ CanLock(outMu[loc[t].o])
    /\ outMu' = [outMu EXCEPT ![loc[t].o] = t]
    /\ loc' = [loc EXCEPT ![t].i = NextPiece(loc[t].pieces, 1)]
    /\ pc' = [pc EXCEPT ![t] = IF loc[t].op = "flush" THEN "flush" ELSE "write"]
    /\ UNCHANGED <<level, flag, prefix, out, mu, dest, clock, nfail, nset,
                   emits, maxLevel, installed, inits, script, ip, last>>

\* write!: the destination takes the next text.
WritePiece(t) ==
    /\ pc[t] = "write"
    /\ LET j == NextPiece(loc[t].pieces, loc[t].i + 1)
       IN /\ dest' = [dest EXCEPT ![loc[t].o] = @ \o loc[t].pieces[loc[t].i]]
          /\ loc' = [loc EXCEPT ![t].i = j]
          /\ pc' = [pc EXCEPT ![t] = IF j > Len(loc[t].pieces)
                                     THEN "dest_unlock" ELSE "write"]
    /\ UNCHANGED <<level, flag, prefix, out, mu, outMu, clock, nfail, nset,
                   emits, maxLevel, installed, inits, script, ip, last>>

\* write!: the destination fails on the next text; write_fmt stops there and
\* returns the error.
WriteFails(t) ==
    /\ pc[t] = "write"
    /\ nfail < MaxFails
    /\ nfail' = nfail + 1
    /\ pc' = [pc EXCEPT ![t] = AfterDestError]
    /\ UNCHANGED <<level, flag, prefix, out, mu, outMu, dest, loc, clock, nset,
                   emits, maxLevel, installed, inits, script, ip, last>>

\* flush: the destination's flush returns, Ok or Err.
Flush(t, ok) ==
    /\ pc[t] = "flush"
    /\ IF ok
       THEN /\ nfail' = nfail
            /\ pc' = [pc EXCEPT ![t] = "dest_unlock"]
       ELSE /\ nfail < MaxFails
            /\ nfail' = nfail + 1
            /\ pc' = [pc EXCEPT ![t] = AfterDestError]
    /\ UNCHANGED <<level, flag, prefix, out, mu, outMu, dest, loc, clock, nset,
                   emits, maxLevel, installed, inits, script, ip, last>>

\* The guard of the destination is dropped and the call returns.
UnlockDest(t) ==
    /\ pc[t] = "dest_unlock"
    /\ outMu' = [outMu EXCEPT ![loc[t].o] = NoThread]
    /\ loc' = [loc EXCEPT ![t] = Returned(t)]
    /\ pc' = [pc EXCEPT ![t] = "idle"]
    /\ UNCHANGED <<level, flag, prefix, out, mu, dest, clock, nfail, nset,
                   emits, maxLevel, installed, inits, script, ip, last>>

\* Time passes.
Tick ==
    /\ clock < MaxClock
    /\ clock' = clock + 1
    /\ UNCHANGED <<level, flag, prefix, out, mu, outMu, dest, pc, loc, nfail, nset,
                   emits, maxLevel, installed, inits, script, ip, last>>

\* &mut self: no thread is inside a method of the Logger.
Exclusive == \A t \in Threads : pc[t] = "idle"

\* A setter takes Logger.mu, assigns its field and drops the guard.
SetterFrame ==
    /\ Exclusive
    /\ CanLock(mu)
    /\ nset < MaxSets
    /\ nset' = nset + 1
    /\ UNCHANGED <<mu, outMu, dest, pc, loc, clock, nfail, emits, maxLevel,
                   installed, inits, script, ip, last>>

set_level(lv) ==
    /\ SetterFrame
    /\ level' = lv
    /\ UNCHANGED <<flag, prefix, out>>

set_flags(f) ==
    /\ SetterFrame
    /\ flag' = f
    /\ UNCHANGED <<level, prefix, out>>

set_prefix(pf) ==
    /\ SetterFrame
    /\ prefix' = pf
    /\ UNCHANGED <<level, flag, out>>

\* set_out: a new destination behind a new Arc and Mutex.
set_out ==
    /\ SetterFrame
    /\ out' = out + 1
    /\ UNCHANGED <<level, flag, prefix>>

\* A Logger of level Trace writing the time of day, shared by the threads.
Init ==
    /\ level = LevelTrace
    /\ flag = L_TIME
    /\ prefix = <<>>
    /\ script = <<>>
    /\ InitRest

Next ==
    \/ \E t \in Threads :
          \/ \E lvl \in EmitLevels : Call(t, "emit", lvl)
          \/ Call(t, "flush", LevelError)
          \/ LockMu(t)
          \/ ReadLevel(t)
          \/ CaptureNow(t)
          \/ ReadFlags(t)
          \/ ReadPrefix(t)
          \/ ReadOut(t)
          \/ LockDest(t)
          \/ WritePiece(t)
          \/ WriteFails(t)
          \/ \E ok \in BOOLEAN : Flush(t, ok)
          \/ UnlockDest(t)
    \/ Tick
    \/ set_level(LevelWarn)
    \/ set_flags(L_NONE)
    \/ set_prefix(<<"p", " ">>)
    \/ set_out

Spec == Init /\ [][Next]_vars

(***************************************************************************)
(* Properties of the threads.                                              *)
(***************************************************************************)
\* s ends with suffix.
HasSuffix(s, suffix) ==
    Len(suffix) <= Len(s) /\ SubSeq(s, Len(s) - Len(suffix) + 1, Len(s)) = suffix

\* sub occurs in s.
Contains(s, sub) ==
    \E i \in 1..(Len(s) - Len(sub) + 1) : SubSeq(s, i, i + Len(sub) - 1) = sub

\* p is a prefix of s.
IsPrefix(p, s) == Len(p) <= Len(s) /\ SubSeq(s, 1, Len(p)) = p

\* The line of the call thread t is in.
LineOf(t) == loc[t].pieces[1] \o loc[t].pieces[2] \o loc[t].pieces[3]

\* The lines of the calls that passed the gate.
EmittedLines == {e.line : e \in emits}

\* The texts between the line terminators of destination d; the last one is
\* what follows the last terminator.
Parts(d) == Split(dest[d], NL)

\* How many complete lines the destinations hold that are equal to line.
Occurrences(line) ==
    Cardinality(UNION {{<<d, i>> : i \in {j \in 1..(Len(Parts(d)) - 1) :
                                             Parts(d)[j] \o <<NL>> = line}} :
                       d \in Dests})

\* How many complete lines the destinations hold.
RECURSIVE CompleteLines(_)
CompleteLines(d) ==
    IF d = 0 THEN 0 ELSE (Len(Parts(d)) - 1) + CompleteLines(d - 1)

\* C1: while the destination takes every write, the threads' lines are neither
\* torn nor merged: every complete line of a destination is the header, message
\* and newline of one call, what follows the last complete line is the
\* beginning of the line of the thread that holds the destination, and once
\* every thread has returned the destinations hold each call's line exactly
\* once: NumThreads * MaxOps lines when every call passed the gate.
C1_NoTornLines ==
    nfail = 0 =>
        /\ \A d \in Dests :
              LET parts == Parts(d)
                  rest == parts[Len(parts)]
              IN /\ \A i \in 1..(Len(parts) - 1) : parts[i] \o <<NL>> \in EmittedLines
                 /\ \/ rest = <<>>
                    \/ /\ outMu[d] # NoThread
                       /\ pc[outMu[d]] = "write"
                       /\ IsPrefix(rest, LineOf(outMu[d]))
        /\ Exclusive =>
              /\ \A e \in emits : Occurrences(e.line) = 1
              /\ CompleteLines(MaxSets + 1) = Cardinality(emits)

C1_Witness ==
    /\ nfail = 0
    /\ Exclusive
    /\ \A t \in Threads : loc[t].k = MaxOps
    /\ Cardinality(emits) = NumThreads * MaxOps
    /\ Len(Parts(1)) - 1 = NumThreads * MaxOps

\* C4: a failure of the destination's write or flush never reaches the caller:
\* no thread panics, the thread that saw the failure goes on to drop the guard
\* and return, and the destination's mutex is only ever held by a thread that
\* is on its way to release it, so later calls are still attempted.
C4_FailureAbsorbed ==
    /\ \A t \in Threads :
          pc[t] \in {"idle", "level_lock", "level_read", "now", "flags_lock",
                     "flags_read", "prefix_lock", "prefix_read", "out_lock",
                     "out_read", "dest_lock", "write", "flush", "dest_unlock"}
    /\ \A d \in Dests :
          outMu[d] # NoThread =>
              /\ pc[outMu[d]] \in {"write", "flush", "dest_unlock"}
              /\ loc[outMu[d]].o = d

\* One thread alone has made calls: a write of its first call failed after the
\* header was written, the call returned, and its last call, a flush, has
\* reached the destination.
C4_Witness ==
    /\ nfail > 0
    /\ \E t \in Threads :
          /\ pc[t] = "flush"
          /\ loc[t].k = MaxOps
          /\ \A u \in Threads \ {t} : loc[u].k = 0
          /\ dest[loc[t].o] # <<>>
          /\ ~EndsWith(dest[loc[t].o], NL)

\* C8, as claimed: a thread that is writing to the destination holds the one
\* guard the setters acquire, Logger.mu.
C8_SingleGuard ==
    \A t \in Threads : pc[t] = "write" => mu = t

\* C8, amended: there are two guards.  Logger.mu is held only while a field is
\* read or assigned; the bytes are written under the Mutex of the destination,
\* which the writing thread holds while it does not hold Logger.mu (another
\* thread may).  Still no setter can run while a thread is inside write_output
\* or flush, because the setters take &mut self.
C8_TwoGuards ==
    /\ \A t \in Threads :
          pc[t] \in {"write", "flush", "dest_unlock"} =>
              /\ outMu[loc[t].o] = t
              /\ mu # t
    /\ \A t \in Threads :
          pc[t] \in {"level_read", "flags_read", "prefix_read", "out_read"} <=> mu = t
    /\ (\E t \in Threads : pc[t] # "idle") =>
          ~ENABLED (set_level(LevelWarn) \/ set_flags(L_NONE)
                        \/ set_prefix(<<"p", " ">>) \/ set_out)

C8_Witness ==
    \E t, u \in Threads :
        /\ pc[t] = "write"
        /\ outMu[loc[t].o] = t
        /\ mu = u
        /\ u # t

\* C9: in a call that passed the gate the timestamp is taken while the thread
\* neither holds nor waits for a guard, before it asks for the destination's;
\* and the header of the line, from when it is built to when it is written, is
\* that of the instant taken then, whatever the clock shows by the time the
\* guard is had.
C9_TimestampBeforeLock ==
    \A t \in Threads :
        /\ pc[t] = "now" => (mu # t /\ \A d \in Dests : outMu[d] # t)
        /\ (loc[t].op = "emit"
              /\ pc[t] \in {"out_lock", "out_read", "dest_lock", "write", "dest_unlock"})
           => /\ loc[t].now <= clock
              /\ loc[t].pieces[1] =
                    header(loc[t].fl, loc[t].pf, TextFoo, <<"?", "?", "?">>, 0,
                           loc[t].lvl, InstantAt(loc[t].now))
              /\ (pc[t] = "dest_unlock" /\ loc[t].i > Len(loc[t].pieces))
                 => HasSuffix(dest[loc[t].o],
                              header(loc[t].fl, loc[t].pf, TextFoo, <<"?", "?", "?">>, 0,
                                     loc[t].lvl, InstantAt(loc[t].now))
                                  \o Msg(t, loc[t].k) \o <<NL>>)

C9_Witness ==
    \E t \in Threads :
        /\ loc[t].op = "emit"
        /\ pc[t] = "dest_unlock"
        /\ loc[t].i > Len(loc[t].pieces)
        /\ loc[t].fl = L_TIME
        /\ loc[t].now < clock
        /\ Len(Parts(loc[t].o)) > 2
        /\ HasSuffix(dest[loc[t].o],
                     FormatTime(InstantAt(loc[t].now)) \o <<" ">> \o Msg(t, loc[t].k) \o <<NL>>)

(***************************************************************************)
(* init and the log facade: log::set_max_level, log::set_boxed_logger and  *)
(* the facade's macros, which hand a record to the installed logger when   *)
(* its level is at most log::max_level().                                  *)
(***************************************************************************)
\* init(l) for a Logger l of level lv, built as tests/newline.rs builds it.
InitLogger(lv) ==
    /\ Len(inits) < MaxInits
    /\ maxLevel' = lv
    /\ IF installed.some
       THEN /\ installed' = installed
            /\ inits' = Append(inits, "Err")
       ELSE /\ installed' = Some([id |-> Len(inits) + 1, level |-> lv])
            /\ inits' = Append(inits, "Ok")
    /\ UNCHANGED <<level, flag, prefix, out, mu, outMu, dest, pc, loc, clock, nfail,
                   nset, emits, script, ip, last>>

\* A macro of the facade at level lvl: <Logger as log::Log>::log of the
\* installed logger, hence write_output, when lvl <= log::max_level().
FacadeLog(lvl) ==
    /\ ip <= MaxLogs
    /\ ip' = ip + 1
    /\ LET w == IF lvl <= maxLevel /\ installed.some
                THEN write_output(installed.v.level, flag, prefix,
                                  LevelCall(lvl, LevelName(lvl)))
                ELSE NoLast
       IN /\ last' = w
          /\ dest' = IF w.gated THEN [dest EXCEPT ![out] = @ \o Bytes(w)] ELSE dest
    /\ UNCHANGED <<level, flag, prefix, out, mu, outMu, pc, loc, clock, nfail, nset,
                   emits, maxLevel, installed, inits, script>>

InitReg ==
    /\ level = LevelTrace
    /\ flag = L_NONE
    /\ prefix = <<>>
    /\ script = <<>>
    /\ InitRest

NextReg ==
    \/ \E lv \in LevelFilters : InitLogger(lv)
    \/ \E lvl \in Levels : FacadeLog(lvl)

RegSpec == InitReg /\ [][NextReg]_vars

\* C10: registration is init-once: the first init installs its logger and sets
\* the process-wide maximum level to that logger's level; every later init
\* fails and leaves the installed logger and the maximum level as they were.
C10_InitOnce ==
    installed.some =>
        /\ installed.v.id = 1
        /\ inits[1] = "Ok"
        /\ \A i \in 2..Len(inits) : inits[i] = "Err"
        /\ maxLevel = installed.v.level

(***************************************************************************)
(* Properties of the sequential caller.                                    *)
(***************************************************************************)
\* The call the sequential caller has just made.
LastCall == script[ip - 1]

RECURSIVE LinesOfPassing(_)
\* The lines of those of the first n calls of the script whose level is at most
\* the threshold, in order.
LinesOfPassing(n) ==
    IF n = 0 THEN <<>>
    ELSE LinesOfPassing(n - 1)
         \o (IF script[n].lvl <= level
             THEN Bytes(write_output(LevelTrace, flag, prefix, script[n]))
             ELSE <<>>)

\* C2: a call writes its line iff its level is at most the threshold (Error <
\* Warn < Info < Debug < Trace) and nothing otherwise: the destination holds the
\* lines of the calls at or below the threshold, in order, and nothing else; with
\* threshold Warn and flags L_LEVEL the calls of tests/level.rs leave the Warn
\* line followed by the Error line.
C2_LevelGate ==
    /\ dest[out] = LinesOfPassing(ip - 1)
    /\ ip > 1 => (last.gated <=> LastCall.lvl <= level)
    /\ (level = LevelWarn /\ flag = L_LEVEL /\ script = LevelTestScript
            /\ ip = Len(script) + 1)
       => dest[out] = <<"W", "A", "R", "N", " ", " ", "w", "a", "r", "n", " ", "m", "e", "s", "s", "a", "g", "e", "\n", "E", "R", "R", "O", "R", " ", "e", "r", "r", "o", "r", " ", "m", "e", "s", "s", "a", "g", "e", "\n">>

C2_Witness ==
    /\ level = LevelWarn /\ flag = L_LEVEL /\ script = LevelTestScript
    /\ ip = Len(script) + 1
    /\ last.gated
    /\ Len(dest[out]) > 0

\* C3: the bytes of an enabled call end with the message followed by one added
\* line terminator when the message does not end in one, and by the message alone
\* when it does; with flags L_NONE the calls of tests/newline.rs leave
\* "message0\nmessage1\n\nmessage2\n".
C3_Newline ==
    /\ (ip > 1 /\ last.gated) =>
          LET s == LastCall.s
              added == IF s # <<>> /\ s[Len(s)] = NL THEN <<>> ELSE <<NL>>
          IN /\ HasSuffix(dest[out], s \o added)
             /\ Len(Bytes(last)) = Len(last.h) + Len(s) + Len(added)
             /\ last.nl = added
    /\ (flag = L_NONE /\ level >= LevelWarn /\ script = NewlineTestScript
            /\ ip = Len(script) + 1)
       => dest[out] = <<"m", "e", "s", "s", "a", "g", "e", "0", "\n", "m", "e", "s", "s", "a", "g", "e", "1", "\n", "\n", "m", "e", "s", "s", "a", "g", "e", "2", "\n">>

C3_Witness ==
    /\ flag = L_NONE /\ level = LevelTrace /\ script = NewlineTestScript
    /\ ip = Len(script) + 1
    /\ last.gated /\ last.nl = <<>>
    /\ Len(dest[out]) > Len(last.s)

\* C5: with flags L_NONE the header is empty for every input, every configured
\* prefix included, so the line written is the message and its terminator.
C5_EmptyHeader ==
    (ip > 1 /\ last.gated /\ flag = L_NONE) =>
        /\ last.h = <<>>
        /\ Bytes(last) = LastCall.s \o last.nl

\* flag with the bits L_LONG_FILE and L_SHORT_FILE cleared.
WithoutFileBits(f) == f - BitAnd(f, BitOr(L_LONG_FILE, L_SHORT_FILE))

\* The header of the last call, had the flags no file bit.
HeaderWithoutFile ==
    header(WithoutFileBits(flag), prefix, LastCall.target,
           FileOrPlaceholder(LastCall.file), LineOrZero(LastCall.line),
           LastCall.lvl, LastCall.now)

\* C6, as claimed: a record without a file has no file segment in its header,
\* whatever the flags.
C6_NoFileNoSegment ==
    (ip > 1 /\ last.gated /\ ~LastCall.file.some) => last.h = HeaderWithoutFile

\* C6, amended: a record without a file has, whenever L_LONG_FILE or L_SHORT_FILE
\* is set, the file segment with the placeholder ??? as its file: the target and
\* a space when L_LONG_FILE is set, then ???, ':', the line (0 when absent) and
\* ': ', between the date and time and the trailing prefix; the segment is
\* absent only when neither bit is set.
C6_PlaceholderSegment ==
    (ip > 1 /\ last.gated /\ ~LastCall.file.some) =>
        LET tail == IF BitAnd(flag, L_MSG_PREFIX) # 0 THEN prefix ELSE <<>>
            front == SubSeq(HeaderWithoutFile, 1, Len(HeaderWithoutFile) - Len(tail))
            seg == (IF BitAnd(flag, L_LONG_FILE) # 0
                    THEN LastCall.target \o <<" ">> ELSE <<>>)
                   \o <<"?", "?", "?", ":">>
                   \o Decimal(IF LastCall.line.some THEN LastCall.line.v ELSE 0)
                   \o <<":", " ">>
        IN IF BitAnd(flag, L_LONG_FILE) # 0 \/ BitAnd(flag, L_SHORT_FILE) # 0
           THEN last.h = front \o seg \o tail
           ELSE last.h = HeaderWithoutFile

C6_Witness ==
    /\ ip > 1 /\ last.gated /\ ~LastCall.file.some
    /\ flag = L_LONG_FILE + L_SHORT_FILE
    /\ Contains(last.h, <<"?", "?", "?", ":">>)

\* C7: whenever L_MICROSECONDS is set, with or without L_TIME, the header holds
\* HH:MM:SS, then '.', then the microsecond of the second as six digits padded
\* with zeros on the left, then a space.
C7_MicrosecondsSixDigits ==
    (ip > 1 /\ last.gated /\ BitAnd(flag, L_MICROSECONDS) # 0) =>
        LET tm == IF BitAnd(flag, L_UTC) # 0
                  THEN WithTimezoneUtc(LastCall.now) ELSE LastCall.now
        IN Contains(last.h,
                    FormatTime(tm) \o <<".">>
                        \o PadLeft(Decimal(tm.nano \div 1000), "0", 6) \o <<" ">>)

=============================================================================
